---- MODULE Spec2Model ----
(***************************************************************************)
(* Model of the I18n class of public/js/i18n.js: the translation lookup    *)
(* t(), the asynchronous loadTranslations() with its single fallback to    *)
(* 'zh', switchLanguage(), the four passes of applyLanguage() over the     *)
(* document and the language toggle.                                       *)
(*                                                                         *)
(* Strings are sequences of characters.  "p" and "t" abbreviate the path   *)
(* segments 'page' and 'title', "." is the path delimiter and ":" the      *)
(* delimiter of an attribute marker.  A JSON value is a tagged record.     *)
(***************************************************************************)
EXTENDS Integers, Sequences, FiniteSets, TLC

VARIABLES
  currentLanguage,  \* this.currentLanguage
  storage,          \* localStorage item 'language' ("none" when absent)
  translations,     \* this.translations
  isInitialized,    \* this.isInitialized
  listeners,        \* number of click handlers registered on the toggle
  timer,            \* the setTimeout of init: "none", "pending", "fired"
  toggle,           \* the toggle markup: [exists, hasLabel, text]
  docTitle,         \* document.title
  doc,              \* the marked elements of the document
  calls,            \* the async calls in flight, in the order they started
  running,          \* the call whose synchronous continuation is executing
  last,             \* the step taken last: operation, its call, its effects
  switched,         \* history: switchLanguage has been called with a new
                    \* language
  tcall             \* one call of t(): its arguments and its result

vars == <<currentLanguage, storage, translations, isInitialized, listeners,
          timer, toggle, docTitle, doc, calls, running, last, switched,
          tcall>>

sysVars == <<currentLanguage, storage, isInitialized, listeners, timer,
             toggle, calls, running, switched>>

----------------------------------------------------------------------------
(* Bounds *)

MaxKeyLen == 3
MaxInFlight == 2

----------------------------------------------------------------------------
(* Strings and JSON values *)

Dot == "."
Colon == ":"
KeyChars == {"p", "t", Dot}

StringsUpTo(chars, n) == UNION {[1..k -> chars] : k \in 0..n}

StrV(s) == [tag |-> "string", s |-> s]
NumV(n) == [tag |-> "number", n |-> n]
NullV == [tag |-> "null"]
ObjV(m) == [tag |-> "object", m |-> m]

EmptyObj == ObjV(<<>>)

\* typeof value (typeof null is 'object')
TypeOf(v) == IF v.tag = "null" THEN "object" ELSE v.tag

\* JavaScript truthiness of a JSON value
Truthy(v) ==
  CASE v.tag = "null" -> FALSE
    [] v.tag = "string" -> v.s # <<>>
    [] v.tag = "number" -> v.n # 0
    [] OTHER -> TRUE

\* String.prototype.split(d): the pieces of s between the occurrences of d
RECURSIVE SplitFrom(_, _, _, _, _)
SplitFrom(s, d, i, cur, acc) ==
  IF i > Len(s) THEN Append(acc, cur)
  ELSE IF s[i] = d THEN SplitFrom(s, d, i + 1, <<>>, Append(acc, cur))
  ELSE SplitFrom(s, d, i + 1, Append(cur, s[i]), acc)

Split(s, d) == SplitFrom(s, d, 1, <<>>, <<>>)

----------------------------------------------------------------------------
(* t(key, fallback) *)

OrElse_keyOnly(fallback, key) == key

\* fallback || key
OrElse(fallback, key) == IF fallback # <<>> THEN fallback ELSE key

\* value && typeof value === 'object' && k in value
CanDescend(value, k) ==
  /\ Truthy(value)
  /\ TypeOf(value) = "object"
  /\ k \in DOMAIN value.m

LeafResult_fallbackFirst(value, fallback, key) ==
  IF fallback # <<>> THEN fallback
  ELSE IF TypeOf(value) = "string" THEN value.s ELSE key

LeafResult_skipBlank(value, fallback, key) ==
  IF TypeOf(value) = "string" /\ value.s # <<>> THEN value.s
  ELSE OrElse(fallback, key)

\* typeof value === 'string' ? value : fallback || key
LeafResult(value, fallback, key) ==
  IF TypeOf(value) = "string" THEN value.s ELSE OrElse(fallback, key)

\* the for loop of t() from segment i on, and the final return
RECURSIVE TWalk(_, _, _, _, _)
TWalk(value, keys, i, key, fallback) ==
  IF i > Len(keys) THEN LeafResult(value, fallback, key)
  ELSE IF CanDescend(value, keys[i])
       THEN TWalk(value.m[keys[i]], keys, i + 1, key, fallback)
       ELSE OrElse(fallback, key)

T(trans, key, fallback) == TWalk(trans, Split(key, Dot), 1, key, fallback)

----------------------------------------------------------------------------
(* The translation mappings t() is exercised on: every mapping of depth at *)
(* most two over the segments 'p' and 't' whose leaves are an empty        *)
(* string, a non-empty string, a number or null.                           *)

Segs == {<<"p">>, <<"t">>}
Leaves == {StrV(<<>>), StrV(<<"Z">>), NumV(0), NullV}
MapsOver(vals) == UNION {[d -> vals] : d \in SUBSET Segs}
InnerMaps == {ObjV(m) : m \in MapsOver(Leaves)}
Mappings == {ObjV(m) : m \in MapsOver(Leaves \cup InnerMaps)}

Keys == StringsUpTo(KeyChars, MaxKeyLen)
Fallbacks == {<<>>, <<"f">>}

----------------------------------------------------------------------------
(* The document: marked elements and the four passes of applyLanguage() *)

NoMarker == [has |-> FALSE, v |-> <<>>]
Marker(v) == [has |-> TRUE, v |-> v]

PageTitleKey == <<"p", Dot, "t">>
Unset == <<"?">>

\* an element as the markup declares it, before any pass has touched it
Element(tag, i18n, i18nAttr, i18nTitle, i18nPlaceholder) ==
  [tag |-> tag, i18n |-> i18n, i18nAttr |-> i18nAttr,
   i18nTitle |-> i18nTitle, i18nPlaceholder |-> i18nPlaceholder,
   textContent |-> Unset, attrs |-> <<>>, expando |-> Unset]

\* element.tagName === 'INPUT' || element.tagName === 'TEXTAREA'
InputLike(e) == e.tag = "INPUT" \/ e.tag = "TEXTAREA"

\* element.setAttribute(name, val)
SetAttribute(e, name, val) ==
  [e EXCEPT !.attrs = [a \in (DOMAIN @) \cup {name} |->
                         IF a = name THEN val ELSE @[a]]]

\* element.title = val: the title property reflects the title attribute
SetTitle(e, val) == SetAttribute(e, <<"title">>, val)

SetPlaceholder_alwaysAttribute(e, val) ==
  SetAttribute(e, <<"placeholder">>, val)

\* element.placeholder = val: reflects the placeholder attribute on INPUT
\* and TEXTAREA, and is a plain property of the object on other elements
SetPlaceholder(e, val) ==
  IF InputLike(e) THEN SetAttribute(e, <<"placeholder">>, val)
  ELSE [e EXCEPT !.expando = val]

PassText_textOnly(e, trans) ==
  IF ~e.i18n.has THEN e
  ELSE [e EXCEPT !.textContent = T(trans, e.i18n.v, <<>>)]

\* the body of the forEach over [data-i18n]
PassText(e, trans) ==
  IF ~e.i18n.has THEN e
  ELSE LET text == T(trans, e.i18n.v, <<>>)
       IN IF InputLike(e) THEN SetPlaceholder(e, text)
          ELSE [e EXCEPT !.textContent = text]

\* the body of the forEach over [data-i18n-attr]
PassAttr(e, trans) ==
  IF ~e.i18nAttr.has THEN e
  ELSE LET parts == Split(e.i18nAttr.v, Colon)
       IN SetAttribute(e, parts[1], T(trans, parts[2], <<>>))

\* the body of the forEach over [data-i18n-title]
PassTitle(e, trans) ==
  IF ~e.i18nTitle.has THEN e
  ELSE SetTitle(e, T(trans, e.i18nTitle.v, <<>>))

\* the body of the forEach over [data-i18n-placeholder]
PassPlaceholder(e, trans) ==
  IF ~e.i18nPlaceholder.has THEN e
  ELSE SetPlaceholder(e, T(trans, e.i18nPlaceholder.v, <<>>))

\* document.querySelectorAll('[data-i18n]').forEach(...)
TextPass(d, trans) == [i \in DOMAIN d |-> PassText(d[i], trans)]

\* document.querySelectorAll('[data-i18n-attr]').forEach(...)
AttrPass(d, trans) == [i \in DOMAIN d |-> PassAttr(d[i], trans)]

\* document.querySelectorAll('[data-i18n-title]').forEach(...)
TitlePass(d, trans) == [i \in DOMAIN d |-> PassTitle(d[i], trans)]

\* document.querySelectorAll('[data-i18n-placeholder]').forEach(...)
PlaceholderPass(d, trans) == [i \in DOMAIN d |-> PassPlaceholder(d[i], trans)]

\* the document after applyLanguage(): the four passes in the code's order
ApplyToDoc(d, trans) ==
  PlaceholderPass(TitlePass(AttrPass(TextPass(d, trans), trans), trans),
                  trans)

\* document.title = this.t('page.title')
ApplyToTitle(trans) == T(trans, PageTitleKey, <<>>)

----------------------------------------------------------------------------
(* The two languages, their resources and the toggle *)

Langs == {"zh", "en"}
DefaultLanguage == "zh"

\* the parsed body of /js/locales/<lang>.json
Resource(lang) ==
  IF lang = "zh"
  THEN ObjV((<<"p">> :> ObjV(<<"t">> :> StrV(<<"Z">>))) @@
            (<<"t">> :> StrV(<<"Y">>)))
  ELSE ObjV(<<"p">> :> ObjV(<<"t">> :> StrV(<<"E">>)))

\* a body that parses although the response status is not a success
ErrorBody == ObjV(<<"e">> :> StrV(<<"N">>))

LabelEnglish == "English"
LabelChinese == "Zhongwen"   \* stands for the label text '中文'
LabelMarkup == "markup"      \* the label text the page was served with

\* the marked elements of the page
PageDoc ==
  << Element("SPAN", Marker(PageTitleKey), NoMarker, NoMarker, NoMarker),
     Element("INPUT", Marker(<<"t">>), NoMarker, Marker(<<"t">>), NoMarker) >>

UpdateLanguageSwitcher_namesActive(tg, lang) ==
  IF tg.exists /\ tg.hasLabel
  THEN [tg EXCEPT !.text = IF lang = "zh" THEN LabelChinese ELSE LabelEnglish]
  ELSE tg

\* updateLanguageSwitcher(): the toggle after the call
UpdateLanguageSwitcher(tg, lang) ==
  IF tg.exists /\ tg.hasLabel
  THEN [tg EXCEPT !.text = IF lang = "zh" THEN LabelEnglish ELSE LabelChinese]
  ELSE tg

\* the language the click handler asks for
NewLang(lang) == IF lang = "zh" THEN "en" ELSE "zh"

----------------------------------------------------------------------------
(* The asynchronous calls *)

Call(kind, arg, pc, url, before, alone, settled, trace) ==
  [kind |-> kind, arg |-> arg, pc |-> pc, url |-> url, respOk |-> TRUE,
   before |-> before, alone |-> alone, settled |-> settled,
   overtaken |-> FALSE, trace |-> trace]

NoCall == Call("none", "zh", "none", "zh", EmptyObj, TRUE, FALSE, <<>>)

\* a step: the operation, how it came about (who called, which outcome),
\* the call it ended (NoCall when the call goes on) and the effects it had
Step(op, how, ended, effects) ==
  [op |-> op, how |-> how, arg |-> "", ended |-> ended, effects |-> effects]

Failures == {"network", "status", "parse"}

Remove(s, c) == SubSeq(s, 1, c - 1) \o SubSeq(s, c + 1, Len(s))

SameLanguage_never(lang, cur) == FALSE

\* lang === this.currentLanguage
SameLanguage(lang, cur) == lang = cur

NeedsFallback_always(lang) == TRUE

\* this.currentLanguage === 'en'
NeedsFallback(lang) == lang = "en"

FallbackLanguage_en == "en"

\* this.currentLanguage = 'zh'
FallbackLanguage == "zh"

FallbackUrl_active == "en"

\* fetch(`/js/locales/zh.json`)
FallbackUrl == "zh"

NewTranslations_keepLoaded(old, parsed) ==
  IF old = EmptyObj THEN parsed ELSE old

\* this.translations = await response.json()
NewTranslations(old, parsed) == parsed

\* the state after the constructor: init() has run up to its first await
Init ==
  /\ storage \in {"none"} \cup Langs
  /\ currentLanguage = (IF storage = "none" THEN DefaultLanguage ELSE storage)
  /\ translations = EmptyObj
  /\ isInitialized = FALSE
  /\ listeners = 0
  /\ timer = "none"
  /\ toggle \in {tg \in [exists : BOOLEAN, hasLabel : BOOLEAN,
                        text : {LabelMarkup}] : tg.hasLabel => tg.exists}
  /\ docTitle = Unset
  /\ doc = PageDoc
  /\ calls = << Call("init", currentLanguage, "fetch1", currentLanguage,
                     EmptyObj, TRUE, FALSE, <<"fetch">>) >>
  /\ running = 0
  /\ last = Step("constructor", "", NoCall, {"fetch"})
  /\ switched = FALSE
  /\ tcall = [key |-> <<>>, fallback |-> <<>>, state |-> "idle",
              result |-> <<>>]

\* init has completed, its delayed refresh included, and nothing is in flight
Settled == timer = "fired" /\ calls = <<>>

\* history kept in a call: `before` is the mapping when the call started and
\* `alone` tells that no other call has been in flight since (the snapshot is
\* dropped as soon as another call overlaps); `settled` tells that the call
\* was made by a click on the toggle in a settled state
Snapshot == IF calls = <<>> THEN translations ELSE EmptyObj
Overlapped(call) == [call EXCEPT !.alone = FALSE, !.before = EmptyObj]

Persisted_skipped(old, lang) == old

\* localStorage.setItem('language', lang): the item after the call
Persisted(old, lang) == lang

\* switchLanguage(lang), up to its first await
SwitchLanguage(via, lang) ==
  /\ running = 0
  /\ IF SameLanguage(lang, currentLanguage)
     THEN /\ last' = [Step("switchLanguage", via,
                               Call("switch", lang, "returned", lang,
                                    Snapshot, calls = <<>>,
                                    via = "click" /\ Settled, <<>>),
                               {}) EXCEPT !.arg = lang]
          /\ UNCHANGED <<currentLanguage, storage, calls, switched>>
     ELSE /\ Len(calls) < MaxInFlight
          /\ currentLanguage' = lang
          /\ storage' = Persisted(storage, lang)
          /\ switched' = TRUE
          /\ calls' = Append(
               [c \in DOMAIN calls |-> Overlapped(calls[c])],
               Call("switch", lang, "fetch1", lang, Snapshot,
                    calls = <<>>, via = "click" /\ Settled,
                    <<"set", "persist", "fetch">>))
          /\ last' = [Step("switchLanguage", via, NoCall,
                               {"set", "persist", "fetch"})
                          EXCEPT !.arg = lang]
  /\ UNCHANGED <<translations, isInitialized, listeners, timer, toggle,
                 docTitle, doc, running, tcall>>

\* window.i18n.switchLanguage(lang) called by other code of the page
CallSwitchLanguage == \E lang \in Langs : SwitchLanguage("api", lang)

CanClick_unregistered(tg, n) == tg.exists

\* a click reaches the object only through a handler registered on the toggle
CanClick(tg, n) == tg.exists /\ n > 0

\* a click on the toggle runs the handler setupLanguageSwitcher registered
Click ==
  /\ CanClick(toggle, listeners)
  /\ SwitchLanguage("click", NewLang(currentLanguage))

\* the calls cs once call c has assigned this.translations: its load has
\* settled, and (history) every switchLanguage call that started before it
\* and still awaits its first retrieval has been overtaken by a
\* switchLanguage call none of whose retrievals failed
Installed(cs, c) ==
  [d \in DOMAIN cs |->
     IF d = c THEN [cs[d] EXCEPT !.pc = "loaded",
                                 !.trace = Append(@, "load")]
     ELSE IF d < c /\ cs[d].kind = "switch" /\ cs[c].kind = "switch"
               /\ cs[c].pc = "fetch1" /\ cs[d].pc = "fetch1"
          THEN [cs[d] EXCEPT !.overtaken = TRUE]
          ELSE cs[d]]

\* the catch block of loadTranslations() in call c, after failure `how`
Catch(c, how) ==
  IF NeedsFallback(currentLanguage)
  THEN /\ currentLanguage' = FallbackLanguage
       /\ calls' = [calls EXCEPT ![c].pc = "fetch2",
                                 ![c].url = FallbackUrl,
                                 ![c].trace = @ \o <<"catch", "fetch">>]
       /\ last' = Step("catch", how, NoCall, {"set", "fetch"})
       /\ UNCHANGED running
  ELSE /\ calls' = [calls EXCEPT ![c].pc = "loaded",
                                 ![c].trace = @ \o <<"catch", "load">>]
       /\ last' = Step("catch", how, NoCall, {})
       /\ running' = c
       /\ UNCHANGED currentLanguage

\* the first retrieval of call c settles: fetch() rejects (network), the
\* response is not ok (status), response.json() rejects (parse), or the
\* parsed resource is assigned.  Between the settling of fetch() and that of
\* response.json() the call reads and writes nothing of the object, so the
\* two are one step, taken when the later of them happens
LoadSettle(c) ==
  /\ running = 0
  /\ calls[c].pc = "fetch1"
  /\ \E outcome \in Failures \cup {"parsed"} :
       IF outcome = "parsed"
       THEN /\ translations' =
                 NewTranslations(translations, Resource(calls[c].url))
            /\ calls' = Installed(calls, c)
            /\ last' = Step("json", outcome, NoCall, {"assign"})
            /\ running' = c
            /\ UNCHANGED currentLanguage
       ELSE /\ Catch(c, outcome)
            /\ UNCHANGED translations
  /\ UNCHANGED <<storage, isInitialized, listeners, timer, toggle, docTitle,
                 doc, tcall, switched>>

\* the retry of call c settles, its status is not inspected: fetch() or
\* response.json() rejects and so does the call, or the parsed body (the
\* resource, or the body of an error response) is assigned
RetrySettle(c) ==
  /\ running = 0
  /\ calls[c].pc = "fetch2"
  /\ \E outcome \in {"network", "parse", "parsed"} :
       IF outcome = "parsed"
       THEN \E ok \in BOOLEAN :
              /\ translations' =
                   NewTranslations(translations,
                                   IF ok THEN Resource(calls[c].url)
                                   ELSE ErrorBody)
              /\ calls' = Installed([calls EXCEPT ![c].respOk = ok], c)
              /\ last' = Step("json", outcome, NoCall, {"assign"})
              /\ running' = c
       ELSE /\ calls' = Remove(calls, c)
            /\ last' = Step("rejected", outcome,
                            [calls[c] EXCEPT !.pc = "failed"], {})
            /\ UNCHANGED <<translations, running>>
  /\ UNCHANGED <<currentLanguage, storage, isInitialized, listeners, timer,
                 toggle, docTitle, doc, tcall, switched>>

LoadSettled_noAwait(call) == call.pc \in {"fetch1", "loaded"}

\* await this.loadTranslations(): the caller resumes once the load settled
LoadSettled(call) == call.pc = "loaded"

\* the effect of applyLanguage() on the document
ApplyLanguageEffect ==
  /\ docTitle' = ApplyToTitle(translations)
  /\ doc' = ApplyToDoc(doc, translations)

\* this.applyLanguage() in the continuation of call c
ApplyLanguage(c) ==
  /\ running \in {0, c}
  /\ LoadSettled(calls[c])
  /\ ApplyLanguageEffect
  /\ calls' = [calls EXCEPT ![c].pc = "applied",
                            ![c].trace = Append(@, "apply")]
  /\ last' = Step("applyLanguage", "", NoCall, {"apply"})
  /\ running' = c
  /\ UNCHANGED <<currentLanguage, storage, translations, isInitialized,
                 listeners, timer, toggle, tcall, switched>>

\* this.updateLanguageSwitcher() at the end of switchLanguage()
RefreshLabel(c) ==
  /\ running = c
  /\ calls[c].kind = "switch"
  /\ calls[c].pc = "applied"
  /\ toggle' = UpdateLanguageSwitcher(toggle, currentLanguage)
  /\ calls' = Remove(calls, c)
  /\ last' = Step("updateLanguageSwitcher", "",
                  [calls[c] EXCEPT !.pc = "done",
                                   !.trace = Append(@, "label")],
                  {"label"})
  /\ running' = 0
  /\ UNCHANGED <<currentLanguage, storage, translations, isInitialized,
                 listeners, timer, docTitle, doc, tcall, switched>>

\* this.setupLanguageSwitcher() in init()
SetupLanguageSwitcher(c) ==
  /\ running = c
  /\ calls[c].kind = "init"
  /\ calls[c].pc = "applied"
  /\ listeners' = IF toggle.exists THEN listeners + 1 ELSE listeners
  /\ calls' = [calls EXCEPT ![c].pc = "wired",
                            ![c].trace = Append(@, "setup")]
  /\ last' = Step("setupLanguageSwitcher", "", NoCall,
                  IF toggle.exists THEN {"listen"} ELSE {})
  /\ UNCHANGED <<currentLanguage, storage, translations, isInitialized,
                 timer, toggle, docTitle, doc, running, tcall, switched>>

\* this.isInitialized = true; setTimeout(..., 100): the end of init()
FinishInit(c) ==
  /\ running = c
  /\ calls[c].kind = "init"
  /\ calls[c].pc = "wired"
  /\ isInitialized' = TRUE
  /\ timer' = "pending"
  /\ calls' = Remove(calls, c)
  /\ last' = Step("initialized", "",
                  [calls[c] EXCEPT !.pc = "done",
                                   !.trace = Append(@, "flag")],
                  {"flag", "timer"})
  /\ running' = 0
  /\ UNCHANGED <<currentLanguage, storage, translations, listeners, toggle,
                 docTitle, doc, tcall, switched>>

\* the callback of init's setTimeout: this.updateLanguageSwitcher()
TimerFire ==
  /\ running = 0
  /\ timer = "pending"
  /\ timer' = "fired"
  /\ toggle' = UpdateLanguageSwitcher(toggle, currentLanguage)
  /\ last' = Step("timeout", "", NoCall, {"label"})
  /\ UNCHANGED <<currentLanguage, storage, translations, isInitialized,
                 listeners, docTitle, doc, calls, running, tcall, switched>>

Next ==
  \/ CallSwitchLanguage
  \/ Click
  \/ \E c \in DOMAIN calls : LoadSettle(c)
  \/ \E c \in DOMAIN calls : RetrySettle(c)
  \/ \E c \in DOMAIN calls : ApplyLanguage(c)
  \/ \E c \in DOMAIN calls : RefreshLabel(c)
  \/ \E c \in DOMAIN calls : SetupLanguageSwitcher(c)
  \/ \E c \in DOMAIN calls : FinishInit(c)
  \/ TimerFire

Spec == Init /\ [][Next]_vars

----------------------------------------------------------------------------
(* The older copy of the class (unnamed/part_000).  It differs from         *)
(* public/js/i18n.js in three places: loadTranslations() does not inspect   *)
(* response.ok, there is no isInitialized flag, and                         *)
(* updateLanguageSwitcher() does not test the label it looks up.            *)

\* text is null and text.textContent = ... throws a TypeError
LabelDereferenceThrows(tg) == tg.exists /\ ~tg.hasLabel

\* updateLanguageSwitcher() of the older copy, when it does not throw
UpdateLanguageSwitcherOld(tg, lang) ==
  IF tg.exists
  THEN [tg EXCEPT !.text = IF lang = "zh" THEN LabelEnglish ELSE LabelChinese]
  ELSE tg

\* the first retrieval of call c settles in the older copy: the status of
\* the response is not inspected, so the parsed body is assigned whatever it
\* is, and only a rejected fetch() or response.json() reaches the catch block
LoadSettleOld(c) ==
  /\ running = 0
  /\ calls[c].pc = "fetch1"
  /\ \E outcome \in {"network", "parse", "parsed"} :
       IF outcome = "parsed"
       THEN \E ok \in BOOLEAN :
              /\ translations' =
                   NewTranslations(translations,
                                   IF ok THEN Resource(calls[c].url)
                                   ELSE ErrorBody)
              /\ calls' = Installed([calls EXCEPT ![c].respOk = ok], c)
              /\ last' = Step("json", outcome, NoCall, {"assign"})
              /\ running' = c
              /\ UNCHANGED currentLanguage
       ELSE /\ Catch(c, outcome)
            /\ UNCHANGED translations
  /\ UNCHANGED <<storage, isInitialized, listeners, timer, toggle, docTitle,
                 doc, tcall, switched>>

\* this.updateLanguageSwitcher() at the end of switchLanguage() in the older
\* copy: a TypeError thrown there rejects the call
RefreshLabelOld(c) ==
  /\ running = c
  /\ calls[c].kind = "switch"
  /\ calls[c].pc = "applied"
  /\ IF LabelDereferenceThrows(toggle)
     THEN /\ last' = Step("rejected", "TypeError",
                          [calls[c] EXCEPT !.pc = "failed"], {})
          /\ UNCHANGED toggle
     ELSE /\ toggle' = UpdateLanguageSwitcherOld(toggle, currentLanguage)
          /\ last' = Step("updateLanguageSwitcher", "",
                          [calls[c] EXCEPT !.pc = "done",
                                           !.trace = Append(@, "label")],
                          {"label"})
  /\ calls' = Remove(calls, c)
  /\ running' = 0
  /\ UNCHANGED <<currentLanguage, storage, translations, isInitialized,
                 listeners, timer, docTitle, doc, tcall, switched>>

\* setTimeout(..., 100): the end of init() in the older copy
FinishInitOld(c) ==
  /\ running = c
  /\ calls[c].kind = "init"
  /\ calls[c].pc = "wired"
  /\ timer' = "pending"
  /\ calls' = Remove(calls, c)
  /\ last' = Step("initialized", "",
                  [calls[c] EXCEPT !.pc = "done"], {"timer"})
  /\ running' = 0
  /\ UNCHANGED <<currentLanguage, storage, translations, isInitialized,
                 listeners, toggle, docTitle, doc, tcall, switched>>

\* the callback of init's setTimeout in the older copy: a TypeError thrown
\* there is an uncaught exception of the callback
TimerFireOld ==
  /\ running = 0
  /\ timer = "pending"
  /\ timer' = "fired"
  /\ IF LabelDereferenceThrows(toggle)
     THEN /\ last' = Step("timeout", "TypeError", NoCall, {})
          /\ UNCHANGED toggle
     ELSE /\ toggle' = UpdateLanguageSwitcherOld(toggle, currentLanguage)
          /\ last' = Step("timeout", "", NoCall, {"label"})
  /\ UNCHANGED <<currentLanguage, storage, translations, isInitialized,
                 listeners, docTitle, doc, calls, running, tcall, switched>>

NextOld ==
  \/ CallSwitchLanguage
  \/ Click
  \/ \E c \in DOMAIN calls : LoadSettleOld(c)
  \/ \E c \in DOMAIN calls : RetrySettle(c)
  \/ \E c \in DOMAIN calls : ApplyLanguage(c)
  \/ \E c \in DOMAIN calls : RefreshLabelOld(c)
  \/ \E c \in DOMAIN calls : SetupLanguageSwitcher(c)
  \/ \E c \in DOMAIN calls : FinishInitOld(c)
  \/ TimerFireOld

SpecOld == Init /\ [][NextOld]_vars

----------------------------------------------------------------------------
(* t() on its own: every mapping, key and fallback of the bounded sets *)

IdleSystem ==
  /\ currentLanguage = DefaultLanguage
  /\ storage = "none"
  /\ isInitialized = FALSE
  /\ listeners = 0
  /\ timer = "none"
  /\ toggle = [exists |-> FALSE, hasLabel |-> FALSE, text |-> LabelMarkup]
  /\ calls = <<>>
  /\ running = 0
  /\ last = Step("none", "", NoCall, {})
  /\ switched = FALSE

InitT ==
  /\ IdleSystem
  /\ translations \in Mappings
  /\ docTitle = Unset
  /\ doc = <<>>
  /\ tcall \in [key : Keys, fallback : Fallbacks, state : {"ready"},
                result : {<<>>}]

\* one call this.t(key, fallback)
CallT ==
  /\ tcall.state = "ready"
  /\ tcall' = [tcall EXCEPT !.state = "returned",
                            !.result = T(translations, tcall.key,
                                         tcall.fallback)]
  /\ UNCHANGED <<sysVars, last, translations, docTitle, doc>>

NextT == CallT

SpecT == InitT /\ [][NextT]_vars

----------------------------------------------------------------------------
(* applyLanguage() on its own: every single-element document whose element *)
(* carries any combination of the four markers, and the page's document    *)

MarkerKeys == {PageTitleKey, <<"t">>}
AttrNames == {<<"title">>, <<"placeholder">>, <<"alt">>}
Tags == {"SPAN", "INPUT", "TEXTAREA"}

KeyMarkers == {NoMarker} \cup {Marker(k) : k \in MarkerKeys}
AttrMarkers ==
  {NoMarker} \cup {Marker(a \o <<Colon>> \o k) : a \in AttrNames,
                                                 k \in MarkerKeys}

Elements ==
  {Element(tag, m1, m2, m3, m4) :
     tag \in Tags, m1 \in KeyMarkers, m2 \in AttrMarkers,
     m3 \in KeyMarkers, m4 \in KeyMarkers}

ApplyDocs == {<<e>> : e \in Elements} \cup {PageDoc}

ApplyMappings ==
  {EmptyObj, Resource("zh"), Resource("en"),
   ObjV(<<"t">> :> StrV(<<>>))}

InitA ==
  /\ IdleSystem
  /\ translations \in ApplyMappings
  /\ docTitle = Unset
  /\ doc \in ApplyDocs
  /\ tcall = [key |-> <<>>, fallback |-> <<>>, state |-> "idle",
              result |-> <<>>]

\* one call this.applyLanguage()
ApplyOnce ==
  /\ last.op = "none"
  /\ ApplyLanguageEffect
  /\ last' = Step("applyLanguage", "", NoCall, {"apply"})
  /\ UNCHANGED <<sysVars, translations, tcall>>

NextA == ApplyOnce

SpecA == InitA /\ [][NextA]_vars

----------------------------------------------------------------------------
(* Claims about t(), checked under SpecT *)

\* The values found by following the dot-delimited path `key` through the
\* mapping: at most one, none when a segment is absent or a level is not a
\* mapping.  The segments of the mappings hold no dot, so a key names a path
\* of one segment or of two joined by a dot.
ValuesAt(trans, key) ==
  {trans.m[a] : a \in {a \in DOMAIN trans.m : key = a}}
  \cup
  UNION {{trans.m[a].m[b] :
            b \in {b \in (IF trans.m[a].tag = "object"
                          THEN DOMAIN trans.m[a].m ELSE {}) :
                     key = a \o <<Dot>> \o b}} :
         a \in DOMAIN trans.m}

Returned == tcall.state = "returned"

\* the path of the key exists in the mapping and ends at a string leaf
HitsString == \E v \in ValuesAt(translations, tcall.key) : v.tag = "string"

\* C1: for a key whose full path exists in the mapping and ends at a string
\* leaf, t(key) and t(key, fallback) return exactly that leaf, whatever the
\* fallback is.
C1_HitReturnsLeaf ==
  Returned =>
    \A v \in ValuesAt(translations, tcall.key) :
      v.tag = "string" => tcall.result = v.s

C1_Witness ==
  /\ Returned
  /\ tcall.key = PageTitleKey
  /\ tcall.fallback = <<"f">>
  /\ StrV(<<"Z">>) \in ValuesAt(translations, tcall.key)
  /\ tcall.result = <<"Z">>

\* C2: when a segment of the key is absent at its level, or the level
\* reached is not a mapping, or the descent ends on a value that is not a
\* string, t(key, fallback) returns the fallback if it is non-empty and the
\* key unchanged otherwise.
C2_MissReturnsFallbackOrKey ==
  (Returned /\ ~HitsString) =>
    tcall.result = (IF tcall.fallback # <<>> THEN tcall.fallback
                    ELSE tcall.key)

\* a descent that completes on a nested mapping, without a fallback
C2_Witness ==
  /\ Returned
  /\ tcall.key = <<"p">>
  /\ tcall.fallback = <<>>
  /\ \E v \in ValuesAt(translations, tcall.key) :
       v.tag = "object" /\ v.m # <<>>
  /\ tcall.result = <<"p">>

\* C3 as stated: t(key, fallback) returns a non-empty string for every
\* mapping, key and fallback.
C3_NeverBlank == Returned => tcall.result # <<>>

\* C3 amended: t() always returns, and its result is blank exactly when the
\* path of the key ends at an empty-string leaf, or the lookup misses while
\* both the key and the fallback are empty; in every other case the result
\* is a non-empty string.
C3_BlankOnlyFromBlankInput ==
  Returned =>
    (tcall.result = <<>> <=>
       \/ StrV(<<>>) \in ValuesAt(translations, tcall.key)
       \/ (~HitsString /\ tcall.key = <<>> /\ tcall.fallback = <<>>))

\* a lookup miss without fallback that yields the non-empty key
C3_Witness ==
  /\ Returned
  /\ ~HitsString
  /\ tcall.fallback = <<>>
  /\ Len(tcall.key) = 3
  /\ NullV \in ValuesAt(translations, tcall.key)
  /\ tcall.result = tcall.key

----------------------------------------------------------------------------
(* Claims about the calls, checked under Spec *)

\* the call took the fallback: a caught failure followed by the retry fetch
FellBack(call) ==
  \E i \in 1..(Len(call.trace) - 1) :
    call.trace[i] = "catch" /\ call.trace[i + 1] = "fetch"

\* the step just taken ended a switchLanguage call with its label refresh
SwitchEnded == last.op = "updateLanguageSwitcher" /\ last.ended.kind = "switch"

PageShows(lang) ==
  /\ docTitle = ApplyToTitle(Resource(lang))
  /\ doc = ApplyToDoc(PageDoc, Resource(lang))

\* C4: switchLanguage(lang) with lang equal to the active language writes
\* nothing to the store, issues no fetch, runs neither applyLanguage nor the
\* label refresh and leaves the active language, the mapping and the
\* document unchanged.
C4_SameLanguageNoOp ==
  [][(last'.op = "switchLanguage" /\ last'.arg = currentLanguage)
       => /\ last'.effects = {}
          /\ UNCHANGED <<currentLanguage, storage, translations, docTitle,
                         doc, toggle, calls, running, isInitialized,
                         listeners, timer>>]_vars

\* switchLanguage('en') once more after 'en' has been loaded and applied
C4_Witness ==
  /\ last.op = "switchLanguage"
  /\ last.arg = "en"
  /\ last.ended.pc = "returned"
  /\ currentLanguage = "en"
  /\ translations = Resource("en")
  /\ PageShows("en")
  /\ calls = <<>>

RefreshedDefault ==
  /\ last.op = "timeout"
  /\ currentLanguage = "zh"
  /\ toggle.exists /\ toggle.hasLabel

\* the step just taken ended the switchLanguage('en') call of one click made
\* after initialization had completed, with nothing else in flight
ClickEnded ==
  /\ SwitchEnded
  /\ last.ended.settled /\ last.ended.alone
  /\ last.ended.arg = "en"
  /\ toggle.hasLabel

\* C6 as stated: after initialization (delayed refresh included) with 'zh'
\* active the label reads 'English'; one click then makes 'en' the active
\* language and, when that switch completes, the label reads '中文'.
C6_ClickShowsChinese ==
  /\ RefreshedDefault => toggle.text = LabelEnglish
  /\ ClickEnded => (currentLanguage = "en" /\ toggle.text = LabelChinese)

\* C6 amended: after initialization with 'zh' active the label reads
\* 'English'; one click then sets the active language to 'en'; when that
\* switch completes the label reads '中文' and 'en' is active if the 'en'
\* resource was loaded, and the label reads 'English' and 'zh' is active if
\* the load failed and the fallback was taken.
C6_ClickShowsAlternate ==
  /\ RefreshedDefault => toggle.text = LabelEnglish
  /\ (last.op = "switchLanguage" /\ last.how = "click"
        /\ last.effects # {}) => currentLanguage = last.arg
  /\ ClickEnded =>
       IF FellBack(last.ended)
       THEN currentLanguage = "zh" /\ toggle.text = LabelEnglish
       ELSE currentLanguage = "en" /\ toggle.text = LabelChinese

C6_Witness ==
  /\ ClickEnded
  /\ ~FellBack(last.ended)
  /\ isInitialized
  /\ currentLanguage = "en"
  /\ toggle.text = LabelChinese
  /\ translations = Resource("en")

C9_ResponseAlwaysInstalled ==
  (last.op = "json" /\ last.how = "parsed" /\ running \in DOMAIN calls)
    => translations = (IF calls[running].respOk
                       THEN Resource(calls[running].url)
                       ELSE ErrorBody)

\* switchLanguage('en') and then switchLanguage('zh') were called, every
\* fetch of both succeeded, the earlier call was overtaken and has just ended
\* last: nothing is in flight, and the mapping and the document are those of
\* the earlier-requested 'en' under the active 'zh'
C9_Witness ==
  /\ SwitchEnded
  /\ last.ended.arg = "en"
  /\ last.ended.overtaken
  /\ last.ended.trace = <<"set", "persist", "fetch", "load", "apply",
                          "label">>
  /\ calls = <<>>
  /\ currentLanguage = "zh"
  /\ translations = Resource("en")
  /\ PageShows("en")

Precedes(tr, a, b) ==
  \A j \in DOMAIN tr : tr[j] = b => \E i \in 1..(j - 1) : tr[i] = a

AtMostOnce(tr, a) == Cardinality({i \in DOMAIN tr : tr[i] = a}) <= 1

OrderedSwitch(tr) ==
  /\ Precedes(tr, "set", "persist")
  /\ Precedes(tr, "persist", "fetch")
  /\ Precedes(tr, "fetch", "load")
  /\ Precedes(tr, "load", "apply")
  /\ Precedes(tr, "apply", "label")
  /\ \A a \in {"set", "persist", "load", "apply", "label"} : AtMostOnce(tr, a)

\* C10: within one switchLanguage(lang) call with a new language the steps
\* happen in this order: the active language is set and persisted, the load
\* settles, applyLanguage runs, the label is refreshed; apply never runs
\* before the call's load has settled nor the refresh before its apply.
C10_SwitchStepsInOrder ==
  /\ \A c \in DOMAIN calls :
       calls[c].kind = "switch" => OrderedSwitch(calls[c].trace)
  /\ last.ended.kind = "switch" => OrderedSwitch(last.ended.trace)
  /\ SwitchEnded =>
       \A a \in {"set", "persist", "load", "apply", "label"} :
         \E i \in DOMAIN last.ended.trace : last.ended.trace[i] = a

C10_Witness ==
  /\ SwitchEnded
  /\ last.ended.trace = <<"set", "persist", "fetch", "load", "apply",
                          "label">>
  /\ translations = Resource(last.ended.arg)
  /\ PageShows(last.ended.arg)

OrderedInit(tr) ==
  /\ Precedes(tr, "fetch", "load")
  /\ Precedes(tr, "load", "apply")
  /\ Precedes(tr, "apply", "setup")
  /\ Precedes(tr, "setup", "flag")
  /\ \A a \in {"load", "apply", "setup", "flag"} : AtMostOnce(tr, a)

\* the init call still awaits its load (first retrieval or retry)
InitLoading ==
  \E c \in DOMAIN calls :
    calls[c].kind = "init" /\ calls[c].pc \in {"fetch1", "fetch2"}

Has(tr, a) == \E i \in DOMAIN tr : tr[i] = a

\* the step just taken rejected a call: its retry threw (network error or
\* parse error) and nothing caught it
Rejected == last.op = "rejected"

\* what C13 says of a call the failure of whose retry propagated
RejectedCallStopped ==
  Rejected =>
    /\ FellBack(last.ended)
    /\ \A a \in {"load", "apply", "label", "setup", "flag"} :
         ~Has(last.ended.trace, a)
    /\ last.ended.kind = "init" =>
         (listeners = 0 /\ ~isInitialized /\ timer = "none")
    /\ last.ended.alone =>
         (currentLanguage = "zh" /\ translations = last.ended.before)

\* the retry of the call got a response whose status is not a success
RetryStatusFailed(call) == FellBack(call) /\ ~call.respOk

\* C13: when the retry of the 'zh' resource itself fails (network error,
\* non-success status or parse error) the failure propagates to the caller:
\* in switchLanguage neither applyLanguage nor the label refresh runs, in
\* init the handler is never registered and the initialized flag stays
\* false; the active language is 'zh' and the mapping is what it was before
\* the call.  So no call goes on after its retry failed.
C13_RetryFailurePropagates ==
  /\ RejectedCallStopped
  /\ \A c \in DOMAIN calls : ~RetryStatusFailed(calls[c])
  /\ ~RetryStatusFailed(last.ended)

FetchCount(tr) == Cardinality({i \in DOMAIN tr : tr[i] = "fetch"})

\* the fetches of one call: one for the language active when it was issued
\* and at most one more, after a caught failure, for 'zh'
FetchesBounded(call) ==
  /\ FetchCount(call.trace) <= 2
  /\ AtMostOnce(call.trace, "catch")
  /\ FetchCount(call.trace) = 2 => (FellBack(call) /\ call.url = "zh")
  /\ FetchCount(call.trace) = 1 => (~FellBack(call) /\ call.url = call.arg)

\* a TypeError was thrown by the step just taken
Threw == last.how = "TypeError"

\* C15: missing toggle markup is tolerated silently: with the toggle absent
\* setupLanguageSwitcher and updateLanguageSwitcher do nothing and raise no
\* error; with the toggle present and its label absent updateLanguageSwitcher
\* does nothing and raises no error, so the delayed refresh of init and
\* switchLanguage complete normally.
C15_MissingToggleTolerated ==
  /\ ~Threw
  /\ ~toggle.exists => listeners = 0
  /\ ~(toggle.exists /\ toggle.hasLabel) => toggle.text = LabelMarkup
  /\ last.op = "timeout" => timer = "fired"
  /\ (last.ended.kind = "switch" /\ Has(last.ended.trace, "apply"))
       => (SwitchEnded /\ last.ended.pc = "done")

\* C14: every loadTranslations() call issues at most two fetches: one for
\* the active language and, only if that one fails while the active language
\* is 'en', exactly one more for 'zh'; no fetch is repeated beyond that,
\* whatever the outcomes and whatever other calls overlap.
C14_AtMostTwoFetches ==
  [][/\ \A c \in DOMAIN calls' :
          calls'[c].kind # "none" => FetchesBounded(calls'[c])
     /\ last'.ended.kind # "none" =>
          (last'.ended.pc = "returned" \/ FetchesBounded(last'.ended))
     /\ last'.op = "catch" =>
          ("fetch" \in last'.effects <=> currentLanguage = "en")
     /\ last'.op \in {"json", "rejected", "applyLanguage",
                      "updateLanguageSwitcher", "setupLanguageSwitcher",
                      "initialized", "timeout"}
          => "fetch" \notin last'.effects]_vars

\* init() started with 'en' stored, its first fetch failed, its one retry
\* obtained the 'zh' resource, and init has completed
C14_Witness ==
  /\ last.op = "initialized"
  /\ last.ended.kind = "init"
  /\ last.ended.arg = "en"
  /\ FetchCount(last.ended.trace) = 2
  /\ last.ended.url = "zh"
  /\ last.ended.respOk
  /\ translations = Resource("zh")
  /\ isInitialized

\* no switchLanguage call and no load is in flight
Quiescent == calls = <<>>

\* C16 as stated: whenever no switchLanguage or load call is in flight and
\* switchLanguage has been called with a new language at least once, the
\* language in the persistent store equals the active language, for every
\* outcome of the fetches.
C16_StoredIsActive ==
  (Quiescent /\ switched) => storage = currentLanguage

\* C16 amended: whenever nothing is in flight and switchLanguage has been
\* called with a new language, the store holds the language of the latest
\* such call; it equals the active language unless a failed load has since
\* reset the active language to 'zh', which is not persisted: then the store
\* holds 'en' while 'zh' is active.  A call no other call overlapped ends
\* with the store holding its language, and with that language active
\* exactly if it did not take the fallback.
C16_StoredIsRequested ==
  /\ (Quiescent /\ switched) =>
       \/ storage = currentLanguage
       \/ storage = "en" /\ currentLanguage = "zh"
  /\ (last.ended.kind = "switch" /\ last.ended.pc \in {"done", "failed"}
        /\ last.ended.alone) =>
       /\ storage = last.ended.arg
       /\ currentLanguage = (IF FellBack(last.ended) THEN "zh"
                             ELSE last.ended.arg)

\* a click switched to 'en', the load fell back to 'zh', the call has ended
\* and nothing is in flight: the store holds 'en' while 'zh' is active
C16_Witness ==
  /\ Quiescent
  /\ switched
  /\ ClickEnded
  /\ FellBack(last.ended)
  /\ timer = "fired"
  /\ storage = "en"
  /\ currentLanguage = "zh"
  /\ translations = Resource("zh")

\* C17: a loadTranslations() call whose fetch was issued for the default
\* language 'zh' never changes the active language: the fallback that resets
\* the active language to 'zh' and refetches is taken only by a call whose
\* own failed fetch was for 'en', also when toggle clicks overlap the
\* pending fetch.
C17_FallbackOnlyAfterEnglishFailed ==
  /\ \A c \in DOMAIN calls : FellBack(calls[c]) => calls[c].arg = "en"
  /\ (last.ended.kind # "none" /\ FellBack(last.ended))
       => last.ended.arg = "en"
  /\ (last.op = "catch" /\ "set" \in last.effects) =>
       \E c \in DOMAIN calls :
         /\ calls[c].pc = "fetch2"
         /\ calls[c].arg = "en"

\* the label text updateLanguageSwitcher() writes for the active language
LabelFor(lang) == IF lang = "zh" THEN LabelEnglish ELSE LabelChinese

\* C18: whenever the toggle and its label exist, the delayed refresh of
\* init has fired and no switchLanguage call is in flight, the label names
\* the language a click would switch to: 'English' exactly when 'zh' is
\* active and '中文' otherwise, after any clicks and any fetch outcomes.
C18_LabelNamesAlternate ==
  (toggle.exists /\ toggle.hasLabel /\ timer = "fired"
     /\ \A c \in DOMAIN calls : calls[c].kind # "switch")
    => toggle.text = LabelFor(currentLanguage)

----------------------------------------------------------------------------
(* Claims about applyLanguage(), checked under SpecA *)

Applied == last.op = "applyLanguage"

Resolves(key) == \E v \in ValuesAt(translations, key) : v.tag = "string"

HasAttr(e, name, val) == name \in DOMAIN e.attrs /\ e.attrs[name] = val

Placeholder == <<"placeholder">>
Title == <<"title">>

\* the element carries the attribute marker 'a:k'
AttrMarked(e, a, k) == e.i18nAttr.has /\ e.i18nAttr.v = a \o <<Colon>> \o k

\* C7 as stated: right after applyLanguage(), every element with a
\* plain-text marker whose key resolves has its text content (its
\* placeholder on INPUT and TEXTAREA) equal to t(key) and every element with
\* an attribute marker 'attr:key' has attribute attr equal to t(key), also
\* when the element carries several kinds of marker.
C7_EveryMarkerApplied ==
  Applied =>
    \A i \in DOMAIN doc :
      LET e == doc[i] IN
      /\ (e.i18n.has /\ Resolves(e.i18n.v)) =>
           IF InputLike(e)
           THEN HasAttr(e, Placeholder, T(translations, e.i18n.v, <<>>))
           ELSE e.textContent = T(translations, e.i18n.v, <<>>)
      /\ \A a \in AttrNames, k \in MarkerKeys :
           AttrMarked(e, a, k) => HasAttr(e, a, T(translations, k, <<>>))

\* C7 amended: the same, provided no later pass writes the same property of
\* the element.  The placeholder of an INPUT or TEXTAREA written for its
\* plain-text marker is overwritten by an attribute marker naming
\* placeholder and by a placeholder marker; an attribute written for an
\* attribute marker is overwritten by the title marker when it is title and
\* by the placeholder marker when it is the placeholder of an INPUT or
\* TEXTAREA.  The title and placeholder markers, applied last, always stand.
C7_LastPassStands ==
  Applied =>
    \A i \in DOMAIN doc :
      LET e == doc[i] IN
      /\ (e.i18n.has /\ ~InputLike(e)) =>
           e.textContent = T(translations, e.i18n.v, <<>>)
      /\ (e.i18n.has /\ InputLike(e) /\ ~e.i18nPlaceholder.has
            /\ \A k \in MarkerKeys : ~AttrMarked(e, Placeholder, k)) =>
           HasAttr(e, Placeholder, T(translations, e.i18n.v, <<>>))
      /\ \A a \in AttrNames, k \in MarkerKeys :
           (AttrMarked(e, a, k)
              /\ ~(a = Title /\ e.i18nTitle.has)
              /\ ~(a = Placeholder /\ InputLike(e) /\ e.i18nPlaceholder.has))
             => HasAttr(e, a, T(translations, k, <<>>))
      /\ e.i18nTitle.has =>
           HasAttr(e, Title, T(translations, e.i18nTitle.v, <<>>))
      /\ (e.i18nPlaceholder.has /\ InputLike(e)) =>
           HasAttr(e, Placeholder, T(translations, e.i18nPlaceholder.v, <<>>))

\* an INPUT carrying three kinds of marker that write different properties
C7_Witness ==
  /\ Applied
  /\ translations = Resource("zh")
  /\ Len(doc) = 1
  /\ doc[1].tag = "INPUT"
  /\ doc[1].i18n = Marker(PageTitleKey)
  /\ AttrMarked(doc[1], <<"alt">>, <<"t">>)
  /\ doc[1].i18nTitle = Marker(<<"t">>)
  /\ HasAttr(doc[1], Placeholder, <<"Z">>)
  /\ HasAttr(doc[1], <<"alt">>, <<"Y">>)
  /\ HasAttr(doc[1], Title, <<"Y">>)

\* the four passes by name, and the order the code runs them in
PassNames == {"text", "attr", "title", "placeholder"}
CodeOrder == <<"text", "attr", "title", "placeholder">>

PassOrders ==
  {o \in [1..4 -> PassNames] : \A i, j \in 1..4 : o[i] = o[j] => i = j}

RunPass(name, d, trans) ==
  CASE name = "text" -> TextPass(d, trans)
    [] name = "attr" -> AttrPass(d, trans)
    [] name = "title" -> TitlePass(d, trans)
    [] name = "placeholder" -> PlaceholderPass(d, trans)

RunPasses(o, d, trans) ==
  RunPass(o[4], RunPass(o[3], RunPass(o[2], RunPass(o[1], d, trans), trans),
                        trans), trans)

\* the document as the markup declares it: the passes never change a marker
Markup(d) ==
  [i \in DOMAIN d |-> Element(d[i].tag, d[i].i18n, d[i].i18nAttr,
                              d[i].i18nTitle, d[i].i18nPlaceholder)]

\* two markers of the element write the same property
Clash(e) ==
  \/ /\ InputLike(e) /\ e.i18n.has
     /\ (e.i18nPlaceholder.has
           \/ \E k \in MarkerKeys : AttrMarked(e, Placeholder, k))
  \/ /\ InputLike(e) /\ e.i18nPlaceholder.has
     /\ \E k \in MarkerKeys : AttrMarked(e, Placeholder, k)
  \/ /\ e.i18nTitle.has
     /\ \E k \in MarkerKeys : AttrMarked(e, Title, k)

\* C12 as stated: the four passes of applyLanguage commute: for every
\* document, elements with more than one kind of marker included, and every
\* mapping, running the passes in any order gives the document the order of
\* the code gives.
C12_PassesCommute ==
  Applied =>
    \A o \in PassOrders : RunPasses(o, Markup(doc), translations) = doc

\* C12 amended: running the four passes in any order gives the document the
\* order of the code gives, for every mapping and every document none of
\* whose elements carries two markers that write the same property (the
\* placeholder of an INPUT or TEXTAREA is written for its plain-text marker,
\* for an attribute marker naming placeholder and for its placeholder
\* marker; the title attribute is written for an attribute marker naming
\* title and for the title marker).
C12_DisjointPassesCommute ==
  Applied =>
    /\ doc = RunPasses(CodeOrder, Markup(doc), translations)
    /\ (\A i \in DOMAIN doc : ~Clash(doc[i])) =>
         \A o \in PassOrders : RunPasses(o, Markup(doc), translations) = doc

\* a SPAN carrying all four kinds of marker, no two writing one property
C12_Witness ==
  /\ Applied
  /\ translations = Resource("zh")
  /\ Len(doc) = 1
  /\ doc[1].tag = "SPAN"
  /\ doc[1].i18n = Marker(<<"t">>)
  /\ AttrMarked(doc[1], Placeholder, PageTitleKey)
  /\ doc[1].i18nTitle = Marker(PageTitleKey)
  /\ doc[1].i18nPlaceholder = Marker(<<"t">>)
  /\ ~Clash(doc[1])
  /\ doc[1].textContent = <<"Y">>
  /\ doc[1].expando = <<"Y">>
  /\ HasAttr(doc[1], Placeholder, <<"Z">>)
  /\ \A o \in PassOrders : RunPasses(o, Markup(doc), translations) = doc

====
